---------------------------- MODULE Spec2Model ----------------------------
(***************************************************************************)
(* A model of bamnostic's BAI index reader (bamnostic/bai.py):             *)
(*   - the binning functions reg2bin and reg2bins,                         *)
(*   - the Bai object: the catalog pass of __init__, get_ref in index and  *)
(*     full mode behind functools.lru_cache(4), query, seek and read.      *)
(*                                                                         *)
(* Reading of the source.  Three identifiers of bai.py do not resolve as   *)
(* written: `serf._io` (line 147), `self.LINEAR_INDEX_WINDOW` (line 327)   *)
(* and the subscripts `self.current_ref['intervals']`, `['bins']` on the   *)
(* Ref namedtuple (lines 327-344).  They are read as `self._io`,           *)
(* `self._LINEAR_INDEX_WINDOW` and the fields of Ref: taken literally no   *)
(* Bai object is ever constructed and no query ever runs.                  *)
(*                                                                         *)
(* The index file is a sequence of 4-byte little-endian words.  Every      *)
(* integer stored in the files of this model is in 0 .. 2^31-1, so a       *)
(* 32-bit field is one word whose signed and unsigned readings agree, and  *)
(* a 64-bit field is its low word followed by a high word of 0.  The       *)
(* cursor is a byte offset.                                                *)
(***************************************************************************)
EXTENDS Integers, Sequences, FiniteSets, TLC

VARIABLES
    \* ---- binning calls (reg2bin / reg2bins applied to a region) ----
    rbeg, rend,      \* the region handed to the binning functions
    bin,             \* result of reg2bin(rbeg, rend): [done, id]
    bins,            \* result of reg2bins(rbeg, rend), NoVal before the call
    \* ---- the Bai object ----
    file,            \* the words of the .bai file behind self._io
    opened,          \* "no" (binning only), "ok", or the error __init__ raised
    pos,             \* self._io.tell(): the cursor, in bytes
    last_pos,        \* self._last_pos
    ref_indices,     \* self.ref_indices: sequence of RefIdx, entry i+1 for ref i
    unmapped,        \* self.unmapped: ref id -> Unmapped 4-tuple
    n_no_coor,       \* self.n_no_coor (None when the trailer is absent)
    current_ref,     \* self.current_ref (None or a Ref)
    cache,           \* the lru_cache of get_ref, one for the class: entries
                     \* [owner, ref, idx, val], least recent first
    other,           \* a second Bai object over the same file (<<>>: none), with
                     \* its own cursor, catalog and current_ref
    \* ---- what the last operation did (observations) ----
    lastOp,          \* the operation and its arguments
    yielded,         \* the pairs the last query yielded, in order
    qerr,            \* the exception the last operation raised, or "none"
    didLoad,         \* the body of get_ref ran in the last operation
    loadFrom,        \* cursor when that body took ref_start = tell(), else None
    admitted,        \* the chunks the last query admitted, in traversal order
    recent,          \* the last distinct reference ids queried, least recent first
    poisoned,        \* a parse error was raised on this index (spec section 7)
    layout           \* the index structure the file was encoded from

binVars == <<rbeg, rend, bin, bins>>
baiVars == <<file, opened, pos, last_pos, ref_indices, unmapped, n_no_coor,
             current_ref, cache, other>>
obsVars == <<lastOp, yielded, qerr, didLoad, loadFrom, recent, poisoned, layout>>
vars == <<binVars, baiVars, obsVars, admitted>>

(***************************************************************************)
(* Values                                                                  *)
(***************************************************************************)
\* Python's None, for fields that otherwise hold a non-negative integer.
None == -1

\* A reg2bins result that has not been computed yet.
NoVal == [err |-> "pending", ids |-> <<>>]

\* `not x` of Python for x in {None} \cup Nat.
Falsy(x) == x = None \/ x = 0

\* x >> n of Python (arithmetic shift: floor division, also for x < 0).
Shr(x, n) == x \div (2 ^ n)

Min(S) == CHOOSE m \in S : \A y \in S : m <= y
Max(S) == CHOOSE m \in S : \A y \in S : m >= y

(***************************************************************************)
(* Binning (bai.py 47-94)                                                  *)
(***************************************************************************)
\* The loop of reg2bin at level i with the current left_shift.
RECURSIVE reg2binFrom(_, _, _, _)
reg2binFrom(beg, end, i, left_shift) ==
    IF i >= 27 THEN 0
    ELSE IF Shr(beg, i) = Shr(end - 1, i)
         THEN ((2 ^ left_shift) - 1) \div 7 + Shr(beg, i)
         ELSE reg2binFrom(beg, end, i + 3, left_shift - 3)

\* A plausible slip: the shift of the finest level is 13 instead of 14.
reg2binShift13(beg, end) ==
    IF Shr(beg, 13) = Shr(end - 1, 13)
    THEN ((2 ^ 15) - 1) \div 7 + Shr(beg, 13)
    ELSE reg2binFrom(beg, end, 17, 12)

\* A plausible slip: left_shift is never decremented, every level gets the
\* finest level's base.
reg2binSameBase(beg, end) ==
    LET RECURSIVE go(_)
        go(i) == IF i >= 27 THEN 0
                 ELSE IF Shr(beg, i) = Shr(end - 1, i)
                      THEN ((2 ^ 15) - 1) \div 7 + Shr(beg, i)
                      ELSE go(i + 3)
    IN go(14)

reg2bin(beg, end) == reg2binFrom(beg, end, 14, 15)

BIN_ID_STARTS == <<0, 1, 9, 73, 585, 4681>>
MAX_RNG == (2 ^ 29) - 1

\* zip(BIN_ID_STARTS, range(29, 13, -3)): the shift of level k.
LevelShift(k) == 29 - 3 * (k - 1)

\* The ids one level yields: start + i .. start + j, in order.
LevelBins(rbeg_, rend_, k) ==
    LET start == BIN_ID_STARTS[k]
        shift == LevelShift(k)
        i == IF rbeg_ > 0 THEN Shr(rbeg_, shift) ELSE 0
        j == IF rend_ < MAX_RNG THEN Shr(rend_, shift) ELSE Shr(MAX_RNG, shift)
    IN [n \in 1..(j - i + 1) |-> start + i + n - 1]

\* A plausible slip: the assertion does not compare rbeg with rend.
reg2binsUnordered(rbeg_, rend_) ==
    IF ~(0 <= rbeg_ /\ rend_ <= MAX_RNG)
    THEN [err |-> "AssertionError", ids |-> <<>>]
    ELSE [err |-> "none",
          ids |-> LevelBins(rbeg_, rend_, 1) \o LevelBins(rbeg_, rend_, 2)
                  \o LevelBins(rbeg_, rend_, 3) \o LevelBins(rbeg_, rend_, 4)
                  \o LevelBins(rbeg_, rend_, 5) \o LevelBins(rbeg_, rend_, 6)]

\* The generator reg2bins, consumed: the ids it yields, or the AssertionError
\* it raises before yielding anything.
reg2bins(rbeg_, rend_) ==
    IF ~(0 <= rbeg_ /\ rbeg_ <= rend_ /\ rend_ <= MAX_RNG)
    THEN [err |-> "AssertionError", ids |-> <<>>]
    ELSE [err |-> "none",
          ids |-> LevelBins(rbeg_, rend_, 1) \o LevelBins(rbeg_, rend_, 2)
                  \o LevelBins(rbeg_, rend_, 3) \o LevelBins(rbeg_, rend_, 4)
                  \o LevelBins(rbeg_, rend_, 5) \o LevelBins(rbeg_, rend_, 6)]

(***************************************************************************)
(* Program constants                                                       *)
(***************************************************************************)
LINEAR_INDEX_WINDOW == 16384
UNMAP_BIN == 37450
\* b'BAI\x01' read as one little-endian word.
MAGIC == 21578050
\* maxsize of the lru_cache around get_ref.
CacheSize == 4

(***************************************************************************)
(* The byte cursor and the unpack helper (bamnostic.utils.unpack)          *)
(***************************************************************************)
FileLen(f) == 4 * Len(f)

\* unpack(fmt, self._io) for a format of n words: the words at the cursor and
\* the cursor after them; at a short read the stream is consumed to its end
\* and struct.unpack fails.
ReadWords(f, p, n) ==
    IF p + 4 * n <= FileLen(f)
    THEN [ok |-> TRUE, w |-> [k \in 1..n |-> f[(p \div 4) + k]], pos |-> p + 4 * n]
    ELSE [ok |-> FALSE, w |-> <<>>, pos |-> IF p > FileLen(f) THEN p ELSE FileLen(f)]

\* '<Q': low word, high word.
U64(lo, hi) == lo + hi * 65536 * 65536

\* ceildiv(a, b) of bamnostic.utils.
ceildiv(a, b) == -((-a) \div b)

\* seq[i] of Python for a list: a negative index counts from the end.
PyIndex(seq, i) ==
    LET k == IF i < 0 THEN i + Len(seq) ELSE i
    IN IF 0 <= k /\ k < Len(seq)
       THEN [ok |-> TRUE, val |-> seq[k + 1]]
       ELSE [ok |-> FALSE, val |-> None]

\* d[key] = val of Python for a dict held as a function.
DictPut(d, key, val) ==
    [x \in (DOMAIN d) \cup {key} |-> IF x = key THEN val ELSE d[x]]

(***************************************************************************)
(* get_chunks, get_ints, get_bins (bai.py 164-256)                         *)
(***************************************************************************)
\* get_chunks: n_chunks times unpack('<2Q'); range(n) is empty for n <= 0.
RECURSIVE get_chunks(_, _, _, _)
get_chunks(f, p, n_chunks, acc) ==
    IF n_chunks <= 0 THEN [err |-> "none", chunks |-> acc, pos |-> p]
    ELSE LET r == ReadWords(f, p, 4)
         IN IF ~r.ok THEN [err |-> "struct.error", chunks |-> acc, pos |-> r.pos]
            ELSE get_chunks(f, r.pos, n_chunks - 1,
                            Append(acc, <<U64(r.w[1], r.w[2]), U64(r.w[3], r.w[4])>>))

\* get_ints: n_int times unpack('<Q').
RECURSIVE get_ints(_, _, _, _)
get_ints(f, p, n_int, acc) ==
    IF n_int <= 0 THEN [err |-> "none", ints |-> acc, pos |-> p]
    ELSE LET r == ReadWords(f, p, 2)
         IN IF ~r.ok THEN [err |-> "struct.error", ints |-> acc, pos |-> r.pos]
            ELSE get_ints(f, r.pos, n_int - 1, Append(acc, U64(r.w[1], r.w[2])))

\* A plausible slip: full mode diverts the reserved bin away from the bins map
\* (as index mode does) instead of filing it like any other bin.
RECURSIVE get_bins_full_divert(_, _, _, _)
get_bins_full_divert(f, p, n_bins, acc) ==
    IF n_bins <= 0 THEN [err |-> "none", bins |-> acc, pos |-> p]
    ELSE LET h == ReadWords(f, p, 2)
         IN IF ~h.ok THEN [err |-> "struct.error", bins |-> acc, pos |-> h.pos]
            ELSE LET c == get_chunks(f, h.pos, h.w[2], <<>>)
                 IN IF c.err # "none" THEN [err |-> c.err, bins |-> acc, pos |-> c.pos]
                    ELSE get_bins_full_divert(f, c.pos, n_bins - 1,
                             IF h.w[1] = UNMAP_BIN THEN acc
                             ELSE DictPut(acc, h.w[1], c.chunks))

\* get_bins with idx = False: every bin, the reserved one included, is decoded
\* by get_chunks and filed in the bins dict.
RECURSIVE get_bins_full(_, _, _, _)
get_bins_full(f, p, n_bins, acc) ==
    IF n_bins <= 0 THEN [err |-> "none", bins |-> acc, pos |-> p]
    ELSE LET h == ReadWords(f, p, 2)
         IN IF ~h.ok THEN [err |-> "struct.error", bins |-> acc, pos |-> h.pos]
            ELSE LET c == get_chunks(f, h.pos, h.w[2], <<>>)
                 IN IF c.err # "none" THEN [err |-> c.err, bins |-> acc, pos |-> c.pos]
                    ELSE get_bins_full(f, c.pos, n_bins - 1,
                                       DictPut(acc, h.w[1], c.chunks))

\* get_bins with idx = True: the reserved bin's four values go to
\* self.unmapped[ref_id]; any other bin's chunks are skipped by a relative
\* seek, which does not look at the end of the file.
RECURSIVE get_bins_idx(_, _, _, _, _)
get_bins_idx(f, p, n_bins, ref_id, unm) ==
    IF n_bins <= 0 THEN [err |-> "none", unmapped |-> unm, pos |-> p]
    ELSE LET h == ReadWords(f, p, 2)
         IN IF ~h.ok THEN [err |-> "struct.error", unmapped |-> unm, pos |-> h.pos]
            ELSE IF h.w[1] = UNMAP_BIN
                 THEN IF h.w[2] # 2
                      THEN [err |-> "AssertionError", unmapped |-> unm, pos |-> h.pos]
                      ELSE LET u == ReadWords(f, h.pos, 8)
                           IN IF ~u.ok
                              THEN [err |-> "struct.error", unmapped |-> unm, pos |-> u.pos]
                              ELSE get_bins_idx(f, u.pos, n_bins - 1, ref_id,
                                       DictPut(unm, ref_id,
                                               <<U64(u.w[1], u.w[2]), U64(u.w[3], u.w[4]),
                                                 U64(u.w[5], u.w[6]), U64(u.w[7], u.w[8])>>))
                 ELSE get_bins_idx(f, h.pos + 16 * h.w[2], n_bins - 1, ref_id, unm)

(***************************************************************************)
(* get_ref (bai.py 258-310)                                                *)
(***************************************************************************)
\* The body of get_ref with idx = True, run at cursor p.
get_ref_idx(f, p, ref_id, unm) ==
    LET nb == ReadWords(f, p, 1)
    IN IF ~nb.ok THEN [err |-> "struct.error", pos |-> nb.pos, unmapped |-> unm,
                       val |-> <<>>]
       ELSE LET b == get_bins_idx(f, nb.pos, nb.w[1], ref_id, unm)
            IN IF b.err # "none"
               THEN [err |-> b.err, pos |-> b.pos, unmapped |-> b.unmapped, val |-> <<>>]
               ELSE LET ni == ReadWords(f, b.pos, 1)
                    IN IF ~ni.ok
                       THEN [err |-> "struct.error", pos |-> ni.pos,
                             unmapped |-> b.unmapped, val |-> <<>>]
                       ELSE LET e == ni.pos + 8 * ni.w[1]
                            IN [err |-> "none", pos |-> e, unmapped |-> b.unmapped,
                                val |-> [start_offset |-> p, end_offset |-> e,
                                         n_bins |-> nb.w[1]]]

\* The body of get_ref with idx = False: seek to the catalog's start, check it,
\* decode the block.  from is the cursor the body took as ref_start.
get_ref_full(f, indices, ref_id) ==
    LET ref_start == indices[ref_id + 1].start_offset
        nb == ReadWords(f, ref_start, 1)
    IN IF ref_start # indices[ref_id + 1].start_offset
       THEN [err |-> "AssertionError", pos |-> ref_start, from |-> ref_start, val |-> <<>>]
       ELSE IF ~nb.ok
       THEN [err |-> "struct.error", pos |-> nb.pos, from |-> ref_start, val |-> <<>>]
       ELSE LET b == get_bins_full(f, nb.pos, nb.w[1], <<>>)
            IN IF b.err # "none"
               THEN [err |-> b.err, pos |-> b.pos, from |-> ref_start, val |-> <<>>]
               ELSE LET ni == ReadWords(f, b.pos, 1)
                    IN IF ~ni.ok
                       THEN [err |-> "struct.error", pos |-> ni.pos, from |-> ref_start,
                             val |-> <<>>]
                       ELSE LET t == get_ints(f, ni.pos, ni.w[1], <<>>)
                            IN IF t.err # "none"
                               THEN [err |-> t.err, pos |-> t.pos, from |-> ref_start,
                                     val |-> <<>>]
                               ELSE [err |-> "none", pos |-> t.pos, from |-> ref_start,
                                     val |-> [bins |-> b.bins, intervals |-> t.ints]]

(***************************************************************************)
(* functools.lru_cache(4) around get_ref (bai.py 259)                      *)
(***************************************************************************)
\* The position of key (self, ref_id, idx) in the cache, 0 when absent.  The
\* decorated function is the class's, so self is part of the key and every
\* Bai object shares the maxsize entries.
CacheFind(c, me, ref_id, idx) ==
    IF \E i \in 1..Len(c) : c[i].owner = me /\ c[i].ref = ref_id /\ c[i].idx = idx
    THEN CHOOSE i \in 1..Len(c) : c[i].owner = me /\ c[i].ref = ref_id /\ c[i].idx = idx
    ELSE 0

\* A hit: entry i becomes the most recently used.
CacheTouch(c, i) ==
    SubSeq(c, 1, i - 1) \o SubSeq(c, i + 1, Len(c)) \o <<c[i]>>

\* A miss: the new entry is the most recently used; beyond maxsize the least
\* recently used entry is dropped.
CacheInsert(c, e) ==
    LET c2 == Append(c, e)
    IN IF Len(c2) > CacheSize THEN Tail(c2) ELSE c2

(***************************************************************************)
(* query (bai.py 313-360)                                                  *)
(***************************************************************************)
\* A miss of the cache in query's get_ref(ref_id): r is what the full-mode body
\* did.  What it returns is cached; an exception is not.
CachedMiss(c, lp, me, ref_id, r) ==
    IF r.err # "none"
    THEN [err |-> r.err, val |-> r.val, cache |-> c,
          pos |-> r.pos, last_pos |-> lp, didLoad |-> TRUE, from |-> r.from]
    ELSE [err |-> "none", val |-> r.val,
          cache |-> CacheInsert(c, [owner |-> me, ref |-> ref_id, idx |-> FALSE,
                                    val |-> r.val]),
          pos |-> r.pos, last_pos |-> r.pos, didLoad |-> TRUE, from |-> r.from]

\* A hit: entry i is returned and no file is touched.
CachedHit(c, p, lp, i) ==
    [err |-> "none", val |-> c[i].val, cache |-> CacheTouch(c, i),
     pos |-> p, last_pos |-> lp, didLoad |-> FALSE, from |-> None]

\* self.get_ref(ref_id) as query calls it: through the cache.
CachedGetRef(f, indices, c, p, lp, me, ref_id) ==
    IF CacheFind(c, me, ref_id, FALSE) # 0
    THEN CachedHit(c, p, lp, CacheFind(c, me, ref_id, FALSE))
    ELSE CachedMiss(c, lp, me, ref_id, get_ref_full(f, indices, ref_id))

\* The filter of line 349.
Admits(chunk, start_offset, end_offset) ==
    start_offset <= chunk[1] /\ chunk[2] < end_offset

\* Lines 349-358 for one chunk.  st holds current_start, current_end, the
\* pairs yielded so far, and (an observation) the chunks admitted so far.
MergeStep(st, chunk, start_offset, end_offset) ==
    IF Admits(chunk, start_offset, end_offset)
    THEN LET adm == Append(st.adm, chunk)
         IN IF Falsy(st.cs)
            THEN [cs |-> chunk[1], ce |-> chunk[2], out |-> st.out, adm |-> adm]
            ELSE IF chunk[1] = st.ce
                 THEN [cs |-> st.cs, ce |-> chunk[2], out |-> st.out, adm |-> adm]
                 ELSE [cs |-> chunk[1], ce |-> chunk[2],
                       out |-> Append(st.out, <<st.cs, st.ce>>), adm |-> adm]
    ELSE st

\* for chunk in bin_chunks
RECURSIVE ScanChunks(_, _, _, _, _)
ScanChunks(chunks, k, st, start_offset, end_offset) ==
    IF k > Len(chunks) THEN st
    ELSE ScanChunks(chunks, k + 1, MergeStep(st, chunks[k], start_offset, end_offset),
                    start_offset, end_offset)

\* for binID in reg2bins(start, stop): a bin absent from the dict is skipped.
RECURSIVE ScanBins(_, _, _, _, _, _)
ScanBins(ids, k, st, binsMap, start_offset, end_offset) ==
    IF k > Len(ids) THEN st
    ELSE ScanBins(ids, k + 1,
                  IF ids[k] \in DOMAIN binsMap
                  THEN ScanChunks(binsMap[ids[k]], 1, st, start_offset, end_offset)
                  ELSE st,
                  binsMap, start_offset, end_offset)

\* Lines 327-337: start_offset and end_offset from the linear index.
QueryOffsets(intervals, start, stop) ==
    LET s == PyIndex(intervals, start \div LINEAR_INDEX_WINDOW)
        e == PyIndex(intervals, ceildiv(stop, LINEAR_INDEX_WINDOW))
        l == PyIndex(intervals, -1)
    IN IF ~s.ok THEN [err |-> "IndexError", so |-> None, eo |-> None, fallback |-> FALSE]
       ELSE IF e.ok THEN [err |-> "none", so |-> s.val, eo |-> e.val, fallback |-> FALSE]
       ELSE IF ~l.ok THEN [err |-> "IndexError", so |-> None, eo |-> None, fallback |-> TRUE]
       ELSE [err |-> "none", so |-> s.val, eo |-> l.val + 1, fallback |-> TRUE]

\* What a query that got its reference g leaves behind when it stops with
\* error e before yielding (e = "none": g itself failed).
QueryStopped(g, cur, e) ==
    [err |-> e, cache |-> g.cache, pos |-> g.pos, last_pos |-> g.last_pos,
     current_ref |-> cur, yielded |-> <<>>, admitted |-> <<>>,
     didLoad |-> g.didLoad, from |-> g.from]

\* Lines 339-360: the loop over the bins st has been through, and the
\* unconditional last yield.
QueryYield(g, st) ==
    [err |-> "none", cache |-> g.cache, pos |-> g.pos, last_pos |-> g.last_pos,
     current_ref |-> <<g.val>>, yielded |-> Append(st.out, <<st.cs, st.ce>>),
     admitted |-> st.adm, didLoad |-> g.didLoad, from |-> g.from]

\* Lines 339-342 on: reg2bins raises at its first step, else the scan.
QueryBins(g, o, b) ==
    IF b.err # "none" THEN QueryStopped(g, <<g.val>>, b.err)
    ELSE QueryYield(g, ScanBins(b.ids, 1,
                                [cs |-> None, ce |-> None, out |-> <<>>, adm |-> <<>>],
                                g.val.bins, o.so, o.eo))

\* Lines 327-337 on, with the offsets o.
QueryFrom(g, o, start, stop) ==
    IF o.err # "none" THEN QueryStopped(g, <<g.val>>, o.err)
    ELSE QueryBins(g, o, reg2bins(start, stop))

\* Line 324 on, with g what get_ref did.
QueryAfterGet(g, cur, start, stop) ==
    IF g.err # "none" THEN QueryStopped(g, cur, g.err)
    ELSE QueryFrom(g, QueryOffsets(g.val.intervals, start, stop), start, stop)

\* The generator query(ref_id, start, stop) consumed to its end.
QueryRun(f, indices, c, p, lp, cur, me, ref_id, start, stop) ==
    QueryAfterGet(CachedGetRef(f, indices, c, p, lp, me, ref_id), cur, start, stop)

(***************************************************************************)
(* __init__ (bai.py 123-161)                                               *)
(***************************************************************************)
\* The dict comprehension of line 155: get_ref(ref, idx=True) for each ref in
\* order, each a miss of the cache under its own key.
RECURSIVE OpenRefs(_, _, _, _, _, _, _, _)
OpenRefs(f, p, ref, n_refs, indices, unm, c, me) ==
    IF ref >= n_refs
    THEN [err |-> "none", pos |-> p, indices |-> indices, unmapped |-> unm, cache |-> c]
    ELSE LET r == get_ref_idx(f, p, ref, unm)
         IN IF r.err # "none"
            THEN [err |-> r.err, pos |-> r.pos, indices |-> indices,
                  unmapped |-> r.unmapped, cache |-> c]
            ELSE OpenRefs(f, r.pos, ref + 1, n_refs, Append(indices, r.val), r.unmapped,
                          CacheInsert(c, [owner |-> me, ref |-> ref, idx |-> TRUE,
                                          val |-> r.val]), me)

\* __init__ raised e with the cursor at p: no object, the cache as it is.
OpenFailed(e, p, c) ==
    [err |-> e, pos |-> p, last_pos |-> 0, indices |-> <<>>,
     unmapped |-> <<>>, cache |-> c, n_no_coor |-> None]

\* Lines 157-161: nnc_dat = self._io.read(8) after the catalog pass r; t is
\* the unpack of those bytes.
OpenTrailer(f, r, t) ==
    IF r.pos >= FileLen(f)
    THEN [err |-> "none", pos |-> r.pos, last_pos |-> r.pos,
          indices |-> r.indices, unmapped |-> r.unmapped, cache |-> r.cache,
          n_no_coor |-> None]
    ELSE IF ~t.ok THEN OpenFailed("struct.error", t.pos, r.cache)
    ELSE [err |-> "none", pos |-> t.pos, last_pos |-> t.pos,
          indices |-> r.indices, unmapped |-> r.unmapped, cache |-> r.cache,
          n_no_coor |-> U64(t.w[1], t.w[2])]

\* Line 155 on, with r the catalog pass.
OpenCatalog(f, r) ==
    IF r.err # "none" THEN OpenFailed(r.err, r.pos, r.cache)
    ELSE OpenTrailer(f, r, ReadWords(f, r.pos, 2))

\* Lines 147-148 on, with h the unpack of the header.
OpenHeader(f, h, c, me) ==
    IF ~h.ok THEN OpenFailed("struct.error", h.pos, c)
    ELSE IF h.w[1] # MAGIC THEN OpenFailed("AssertionError", h.pos, c)
    ELSE OpenCatalog(f, OpenRefs(f, h.pos, 0, h.w[2], <<>>, <<>>, c, me))

\* me = Bai(filename) on a file that exists, the class's cache being c.
Open(f, c, me) == OpenHeader(f, ReadWords(f, 0, 2), c, me)

(***************************************************************************)
(* Bounds of the model                                                     *)
(***************************************************************************)
\* Binning positions: k * 2^shift + d for k in 1..MaxK at every level shift.
MaxK == 1
\* Reads per reference of a built index.
MaxReads == 2
\* Query positions reach window MaxWin of the linear index.
MaxWin == 1
\* References of the many-reference index.
NRefs == 5
\* Words missing from the end of a truncated file.
MaxTrunc == 2
\* Absolute seek offsets 0 .. MaxSeek.
MaxSeek == 1
\* The second Bai object is queried for reference ids 0..MaxOtherRef.
MaxOtherRef == 0

(***************************************************************************)
(* Index files: the structure of an index and its encoding (spec section 6)*)
(***************************************************************************)
RECURSIVE Flatten(_)
Flatten(ss) == IF ss = <<>> THEN <<>> ELSE Head(ss) \o Flatten(Tail(ss))

RECURSIVE SetToSeq(_)
SetToSeq(S) == IF S = {} THEN <<>> ELSE <<Min(S)>> \o SetToSeq(S \ {Min(S)})

\* int32 bin_id, int32 n_chunk, then n_chunk pairs of uint64.
EncBin(b) ==
    <<b.id, Len(b.chunks)>>
    \o Flatten([k \in 1..Len(b.chunks) |-> <<b.chunks[k][1], 0, b.chunks[k][2], 0>>])

\* int32 n_bin, the bins, int32 n_intv, n_intv uint64 offsets.
EncRef(r) ==
    <<Len(r.bins)>> \o Flatten([k \in 1..Len(r.bins) |-> EncBin(r.bins[k])])
    \o <<Len(r.ints)>> \o Flatten([k \in 1..Len(r.ints) |-> <<r.ints[k], 0>>])

\* magic, n_ref, the references, the optional n_no_coor; L.cut words are
\* missing from the end of the file (a truncated copy).
Encode(L) ==
    LET all == <<MAGIC, Len(L.refs)>>
               \o Flatten([k \in 1..Len(L.refs) |-> EncRef(L.refs[k])])
               \o (IF L.trailer = None THEN <<>> ELSE <<L.trailer, 0>>)
    IN SubSeq(all, 1, Len(all) - L.cut)

\* The reads a built reference is indexed over, in file order (sorted by
\* position): half-open [beg, end).
Pool == << [beg |-> 0,     end |-> 100],
           [beg |-> 16000, end |-> 16500],
           [beg |-> 16100, end |-> 16200],
           [beg |-> 17000, end |-> 17100],
           [beg |-> 40000, end |-> 40100] >>

\* The virtual offset of the k-th read of a file; read k ends where k+1 begins.
Voff(k) == 100 * k

\* A reference block correctly built over reads: every read's chunk is filed
\* under reg2bin(beg, end), file-adjacent reads of one bin share a chunk,
\* intervals[w] is the smallest virtual offset of a read overlapping window w
\* (a window no read overlaps takes the value of the next one), and the
\* reserved bin holds (first offset, last offset, n_mapped, n_unmapped).
BuildRef(reads) ==
    LET n == Len(reads)
        binOf(k) == reg2bin(reads[k].beg, reads[k].end)
        ids == SetToSeq({binOf(k) : k \in 1..n})
        runEnd(k) == Max({m \in k..n : \A x \in k..m : binOf(x) = binOf(k)})
        starts(b) == SetToSeq({k \in 1..n : binOf(k) = b /\ (k = 1 \/ binOf(k - 1) # b)})
        chunksOf(b) == [j \in 1..Len(starts(b)) |->
                          <<Voff(starts(b)[j]), Voff(runEnd(starts(b)[j]) + 1)>>]
        nwin == Max({Shr(reads[k].end - 1, 14) : k \in 1..n}) + 1
        over(w) == {k \in 1..n : Shr(reads[k].beg, 14) <= w /\ w <= Shr(reads[k].end - 1, 14)}
        first(w) == Min({x \in w..(nwin - 1) : over(x) # {}})
    IN [bins |-> [j \in 1..Len(ids) |-> [id |-> ids[j], chunks |-> chunksOf(ids[j])]]
                 \o << [id |-> UNMAP_BIN,
                        chunks |-> << <<Voff(1), Voff(n + 1)>>, <<n, 0>> >>] >>,
        ints |-> [w \in 1..nwin |-> Voff(Min(over(first(w - 1))))],
        reads |-> [k \in 1..n |-> [beg |-> reads[k].beg, end |-> reads[k].end,
                                   voff |-> Voff(k)]]]

\* The sorted sub-sequences of Pool with 1..MaxReads reads.
ReadSets ==
    {[j \in 1..Cardinality(S) |-> Pool[SetToSeq(S)[j]]] :
        S \in {T \in SUBSET (1..Len(Pool)) : 1 <= Cardinality(T) /\ Cardinality(T) <= MaxReads}}

\* Hand-written reference blocks (no reads behind them).
RawMerge == [bins |-> << [id |-> 4681, chunks |-> << <<10, 20>>, <<20, 30>>, <<40, 50>> >>],
                         [id |-> 4682, chunks |-> << <<50, 55>> >>] >>,
             ints |-> <<10, 60>>, reads |-> <<>>]
\* A chunk that begins at virtual offset 0.
RawZero == [bins |-> << [id |-> 4681, chunks |-> << <<0, 5>>, <<5, 9>> >>] >>,
            ints |-> <<0, 20>>, reads |-> <<>>]
\* A linear index and no bin.
RawNoBins == [bins |-> <<>>, ints |-> <<10>>, reads |-> <<>>]
\* The minimal block: n_bin = 0, n_intv = 0.
RawMinimal == [bins |-> <<>>, ints |-> <<>>, reads |-> <<>>]

\* Index files for the query algorithm: one built reference each, the
\* hand-written blocks, and a two-reference file, with and without the
\* n_no_coor trailer, whole or with up to MaxTrunc words missing at the end.
QueryLayouts ==
    {[refs |-> <<BuildRef(rs)>>, trailer |-> None, cut |-> 0] : rs \in ReadSets}
    \cup {[refs |-> <<RawNoBins>>, trailer |-> None, cut |-> 0],
          [refs |-> <<RawMinimal>>, trailer |-> None, cut |-> 0]}
    \cup {[refs |-> <<RawMerge, RawZero>>, trailer |-> t, cut |-> k] :
             t \in {None, 7}, k \in 0..MaxTrunc}

\* The index file for the cache: NRefs references.
CacheTemplate(i) ==
    CASE i % 3 = 1 -> BuildRef(<<Pool[1], Pool[4]>>)
      [] i % 3 = 2 -> RawMerge
      [] OTHER     -> RawNoBins
CacheLayouts ==
    {[refs |-> [i \in 1..NRefs |-> CacheTemplate(i)], trailer |-> None, cut |-> 0]}

\* Query positions inside 0 .. 2^29 - 1: two in window 0 and one in every
\* window up to MaxWin.
QueryPositions == {0, 100} \cup {w * LINEAR_INDEX_WINDOW + 1 : w \in 1..MaxWin}
\* Regions: every valid one over QueryPositions, and the three kinds of
\* invalid ones (rbeg < 0, rbeg > rend, rend > 2^29 - 1).
QueryRegions ==
    {reg \in QueryPositions \X QueryPositions : reg[1] <= reg[2]}
    \cup {<<-1, 100>>, <<100, 0>>, <<0, MAX_RNG + 1>>}
CacheRegions == {<<0, 100>>}

BinPositions ==
    {-1, 0, 100, 16000, 16100, MAX_RNG, MAX_RNG + 1}
    \cup {k * (2 ^ sh) + d : k \in 1..MaxK, sh \in {14, 17, 20, 23, 26}, d \in {-1, 0, 1}}

ValidRegion(b, e) == 0 <= b /\ b <= e /\ e <= MAX_RNG

(***************************************************************************)
(* Operations on an open Bai                                               *)
(***************************************************************************)
RefIds == 0..(Len(ref_indices) - 1)
\* The reference ids the second object is queried for.
OtherRefIds == {r \in RefIds : r <= MaxOtherRef}

\* The number of most recently used reference ids the cache is said to hold.
RecentWindow == 4

\* recent with ref_id moved (or added) as the most recent, kept to the last
\* RecentWindow ids.
Touch(seq, ref_id) ==
    LET t == SelectSeq(seq, LAMBDA x : x # ref_id) \o <<ref_id>>
    IN IF Len(t) > RecentWindow THEN Tail(t) ELSE t

\* The state a consumed query q leaves.
QueryDone(ref_id, start, stop, q) ==
    /\ cache' = q.cache
    /\ pos' = q.pos
    /\ last_pos' = q.last_pos
    /\ current_ref' = q.current_ref
    /\ yielded' = q.yielded
    /\ admitted' = q.admitted
    /\ qerr' = q.err
    /\ didLoad' = q.didLoad
    /\ loadFrom' = q.from
    /\ poisoned' = (poisoned \/ q.err = "struct.error")
    /\ lastOp' = [op |-> "query", ref |-> ref_id, a |-> start, b |-> stop]
    /\ recent' = Touch(recent, ref_id)
    /\ UNCHANGED <<file, opened, ref_indices, unmapped, n_no_coor, other, layout, binVars>>

\* list(bai.query(ref_id, start, stop))
Query(ref_id, start, stop) ==
    /\ opened = "ok"
    /\ QueryDone(ref_id, start, stop,
                 QueryRun(file, ref_indices, cache, pos, last_pos, current_ref,
                          "bai", ref_id, start, stop))

\* bai.seek(offset, whence) with an integer offset.
Seek(offset, whence) ==
    /\ opened = "ok"
    /\ LET target == IF whence = 0 THEN offset
                     ELSE IF whence = 1 THEN pos + offset
                     ELSE FileLen(file) + offset
       IN IF target < 0
          THEN pos' = pos /\ qerr' = "OSError"
          ELSE pos' = target /\ qerr' = "none"
    /\ lastOp' = [op |-> "seek", ref |-> None, a |-> offset, b |-> whence]
    /\ yielded' = <<>> /\ admitted' = <<>> /\ didLoad' = FALSE /\ loadFrom' = None
    /\ UNCHANGED <<file, opened, last_pos, ref_indices, unmapped, n_no_coor, current_ref,
                   cache, other, recent, poisoned, layout, binVars>>

\* bai.seek() / bai.seek(None): isinstance(None, (int, None)) raises.
SeekNone ==
    /\ opened = "ok"
    /\ qerr' = "TypeError"
    /\ lastOp' = [op |-> "seek", ref |-> None, a |-> None, b |-> 0]
    /\ yielded' = <<>> /\ admitted' = <<>> /\ didLoad' = FALSE /\ loadFrom' = None
    /\ UNCHANGED <<baiVars, recent, poisoned, layout, binVars>>

\* bai.read(size)
Read(size) ==
    /\ opened = "ok"
    /\ pos' = IF size = 0 \/ pos >= FileLen(file) THEN pos
              ELSE IF size < 0 \/ pos + size > FileLen(file) THEN FileLen(file)
              ELSE pos + size
    /\ qerr' = "none"
    /\ lastOp' = [op |-> "read", ref |-> None, a |-> size, b |-> None]
    /\ yielded' = <<>> /\ admitted' = <<>> /\ didLoad' = FALSE /\ loadFrom' = None
    /\ UNCHANGED <<file, opened, last_pos, ref_indices, unmapped, n_no_coor, current_ref,
                   cache, other, recent, poisoned, layout, binVars>>

(***************************************************************************)
(* A second Bai object in the same process                                 *)
(***************************************************************************)
\* What other = Bai(filename) leaves, o being what its __init__ did.
OtherOpened(o) ==
    /\ cache' = o.cache
    /\ other' = IF o.err # "none" THEN <<>>
                ELSE <<[pos |-> o.pos, last_pos |-> o.last_pos, ref_indices |-> o.indices,
                        unmapped |-> o.unmapped, n_no_coor |-> o.n_no_coor,
                        current_ref |-> <<>>]>>
    /\ qerr' = o.err
    /\ lastOp' = [op |-> "other.open", ref |-> None, a |-> None, b |-> None]
    /\ yielded' = <<>> /\ admitted' = <<>> /\ didLoad' = FALSE /\ loadFrom' = None
    /\ UNCHANGED <<file, opened, pos, last_pos, ref_indices, unmapped, n_no_coor,
                   current_ref, recent, poisoned, layout, binVars>>

\* other = Bai(filename) over the same file.
OpenOther ==
    /\ opened = "ok" /\ other = <<>>
    /\ OtherOpened(Open(file, cache, "other"))

\* What list(other.query(ref_id, start, stop)) leaves.
OtherQueryDone(ref_id, start, stop, q) ==
    /\ cache' = q.cache
    /\ other' = <<[other[1] EXCEPT !.pos = q.pos, !.last_pos = q.last_pos,
                                   !.current_ref = q.current_ref]>>
    /\ yielded' = q.yielded
    /\ admitted' = q.admitted
    /\ qerr' = q.err
    /\ didLoad' = q.didLoad
    /\ loadFrom' = q.from
    /\ lastOp' = [op |-> "other.query", ref |-> ref_id, a |-> start, b |-> stop]
    /\ UNCHANGED <<file, opened, pos, last_pos, ref_indices, unmapped, n_no_coor,
                   current_ref, recent, poisoned, layout, binVars>>

\* list(other.query(ref_id, start, stop))
QueryOther(ref_id, start, stop) ==
    /\ other # <<>>
    /\ OtherQueryDone(ref_id, start, stop,
                      QueryRun(file, other[1].ref_indices, cache, other[1].pos,
                               other[1].last_pos, other[1].current_ref,
                               "other", ref_id, start, stop))

(***************************************************************************)
(* Binning calls                                                           *)
(***************************************************************************)
CallReg2bin ==
    /\ opened = "no"
    /\ ~bin.done
    /\ bin' = [done |-> TRUE, id |-> reg2bin(rbeg, rend)]
    /\ UNCHANGED <<rbeg, rend, bins, baiVars, obsVars, admitted>>

CallReg2bins ==
    /\ opened = "no"
    /\ bins = NoVal
    /\ bins' = reg2bins(rbeg, rend)
    /\ UNCHANGED <<rbeg, rend, bin, baiVars, obsVars, admitted>>

(***************************************************************************)
(* Specifications                                                          *)
(***************************************************************************)
BinIdle ==
    /\ rbeg = 0 /\ rend = 0
    /\ bin = [done |-> FALSE, id |-> 0]
    /\ bins = NoVal

\* The object Bai(filename) leaves, o being what __init__ did.
Opened(o) ==
    /\ opened = (IF o.err = "none" THEN "ok" ELSE o.err)
    /\ pos = o.pos
    /\ last_pos = o.last_pos
    /\ ref_indices = o.indices
    /\ unmapped = o.unmapped
    /\ n_no_coor = o.n_no_coor
    /\ cache = o.cache
    /\ other = <<>>
    /\ current_ref = <<>>
    /\ lastOp = [op |-> "open", ref |-> None, a |-> None, b |-> None]
    /\ yielded = <<>> /\ admitted = <<>>
    /\ qerr = "none" /\ didLoad = FALSE /\ loadFrom = None
    /\ recent = <<>> /\ poisoned = FALSE

\* The state after Bai(filename) over the file encoded from one of Ls.
InitBai(Ls) ==
    /\ layout \in Ls
    /\ file = Encode(layout)
    /\ Opened(Open(file, <<>>, "bai"))
    /\ BinIdle

\* Queries over the query index files.
Init == InitBai(QueryLayouts)
Next ==
    \/ \E r \in RefIds, reg \in QueryRegions : Query(r, reg[1], reg[2])
    \/ \E off \in 0..MaxSeek, wh \in {0, 2} : Seek(off, wh)
    \/ SeekNone
    \/ \E size \in {-1, 0} : Read(size)
Spec == Init /\ [][Next]_vars

\* Queries over the many-reference file, by two Bai objects: the cache.
InitCache == InitBai(CacheLayouts)
NextCache ==
    \/ \E r \in RefIds, reg \in CacheRegions : Query(r, reg[1], reg[2])
    \/ OpenOther
    \/ \E r \in OtherRefIds, reg \in CacheRegions : QueryOther(r, reg[1], reg[2])
    \/ Seek(0, 0)
SpecCache == InitCache /\ [][NextCache]_vars

\* The binning functions applied to regions.
InitBin ==
    /\ rbeg \in BinPositions /\ rend \in BinPositions
    /\ bin = [done |-> FALSE, id |-> 0]
    /\ bins = NoVal
    /\ layout = [refs |-> <<>>, trailer |-> None, cut |-> 0]
    /\ file = <<>> /\ opened = "no" /\ pos = 0 /\ last_pos = 0
    /\ ref_indices = <<>> /\ unmapped = <<>> /\ n_no_coor = None
    /\ cache = <<>> /\ other = <<>> /\ current_ref = <<>>
    /\ lastOp = [op |-> "none", ref |-> None, a |-> None, b |-> None]
    /\ yielded = <<>> /\ admitted = <<>>
    /\ qerr = "none" /\ didLoad = FALSE /\ loadFrom = None
    /\ recent = <<>> /\ poisoned = FALSE
NextBin == CallReg2bin \/ CallReg2bins
SpecBin == InitBin /\ [][NextBin]_vars

(***************************************************************************)
(* Properties                                                              *)
(***************************************************************************)
IsQuery == opened = "ok" /\ lastOp.op = "query"
RefStart(r) == ref_indices[r + 1].start_offset
RefEnd(r) == ref_indices[r + 1].end_offset
Elems(seq) == {seq[k] : k \in 1..Len(seq)}
\* The reads behind reference r of the file (none for a hand-written block).
ReadsOf(r) == layout.refs[r + 1].reads
Overlaps(rd, start, stop) == rd.beg < stop /\ rd.end > start
Covered(v, pairs) == \E j \in 1..Len(pairs) : pairs[j][1] <= v /\ v < pairs[j][2]

RECURSIVE RunsFrom(_, _, _, _, _)
RunsFrom(adm, k, cb, ce, out) ==
    IF k > Len(adm) THEN Append(out, <<cb, ce>>)
    ELSE IF adm[k][1] = ce THEN RunsFrom(adm, k + 1, cb, adm[k][2], out)
    ELSE RunsFrom(adm, k + 1, adm[k][1], adm[k][2], Append(out, <<cb, ce>>))
Runs(adm) == RunsFrom(adm, 2, adm[1][1], adm[1][2], <<>>)

C4_Reg2binAmongReg2bins ==
    (ValidRegion(rbeg, rend) /\ bin.done /\ bins.err = "none")
    => \E k \in 1..Len(bins.ids) : bins.ids[k] = bin.id

C4_Witness ==
    /\ ValidRegion(rbeg, rend) /\ rbeg < rend
    /\ bin.done /\ bins.err = "none"
    /\ bin.id > 0 /\ bin.id < 4681

HasReservedBin(r) ==
    \E k \in 1..Len(layout.refs[r + 1].bins) : layout.refs[r + 1].bins[k].id = UNMAP_BIN

InFinestRange(b) == 4681 <= b /\ b < 4681 + 2 ^ 18

\* C7 as stated: reg2bin(0, 100) and reg2bin(16000, 16100) are two distinct
\* ids of the finest level.
C7_TwoDistinctFinestBins ==
    (rbeg = 16000 /\ rend = 16100 /\ bin.done)
    => /\ bin.id # reg2bin(0, 100)
       /\ InFinestRange(bin.id) /\ InFinestRange(reg2bin(0, 100))

\* C7 amended: reg2bin(0, 100) and reg2bin(16000, 16100) are the same id of
\* the finest level, 4681: both regions lie in the first 16384-bp window.
C7_SameFinestBin ==
    (bin.done /\ ((rbeg = 0 /\ rend = 100) \/ (rbeg = 16000 /\ rend = 16100)))
    => bin.id = 4681 /\ InFinestRange(bin.id)

C7_Witness == rbeg = 16000 /\ rend = 16100 /\ bin.done /\ bin.id = reg2bin(0, 100)

=============================================================================
